---- MODULE Spec2Model ----
(***************************************************************************)
(* A model of la_metro_rail: the Line / Stop / Station models              *)
(* (models.py) and the loader (load.py).                                   *)
(*                                                                         *)
(* Two specifications share the module:                                    *)
(*   Spec        the loader, load.all(), run step by step on the store;    *)
(*   SpecEntity  the methods of one in-memory Line or Stop instance        *)
(*               (set_linestrings, set_simple_linestrings, set_point).     *)
(*                                                                         *)
(* Geometry is abstract.  A coordinate is one integer; a line part is a    *)
(* sequence of coordinates; a MultiLineString is a set of parts.  The      *)
(* external primitives (CRS transform, simplify, union aggregate) are      *)
(* modelled by what they do to these values.                               *)
(***************************************************************************)
EXTENDS Integers, Sequences, FiniteSets, TLC

(***************************************************************************)
(* Bounds of the model.                                                    *)
(***************************************************************************)
MaxLineFeatures == 4
MaxStopFeatures == 2
MaxReloads == 2

(***************************************************************************)
(* Program constants.                                                      *)
(***************************************************************************)
\* set_linestrings(self, canonical_srid=2229)
LineCanonicalSRID == 2229
\* set_point(self, canonical_srid=4269)
PointCanonicalSRID == 4269
\* set_simple_linestrings(self, tolerance=500)
DefaultTolerance == 500
\* the linear-unit SRID the simplification works in
SimplifySRID == 900913

\* Line.get_srid_list(): the SRIDs of the fields named linestring_<srid>, in
\* the order the fields are declared.
LineSRIDs == <<2229, 4269, 4326, 900913>>
\* Stop.get_srid_list(): the SRIDs of the fields named point_<srid>.
PointSRIDs == <<4269, 4326, 900913>>

Range(s) == {s[i] : i \in DOMAIN s}

(***************************************************************************)
(* Geometry values.                                                        *)
(***************************************************************************)
\* Python None / SQL NULL in a geometry field.
NULL == [type |-> "NULL"]

MultiLineString(srid, parts) ==
    [type |-> "MultiLineString", srid |-> srid, parts |-> parts]
LineString(srid, coords) ==
    [type |-> "LineString", srid |-> srid, parts |-> {coords}]
Point(srid, c) ==
    [type |-> "Point", srid |-> srid, parts |-> {<<c>>}]

\* The CRS-transform primitive.  A coordinate in SRID s is the ground
\* position scaled by the SRID's unit and shifted by its origin.
Unit(srid) ==
    CASE srid = 2229 -> 3
      [] srid = 4269 -> 1
      [] srid = 4326 -> 1
      [] srid = 900913 -> 1000
Origin(srid) ==
    CASE srid = 2229 -> 6000
      [] srid = 4269 -> -118
      [] srid = 4326 -> -117
      [] srid = 900913 -> -13000
Reproject(c, from, to) == ((c - Origin(from)) \div Unit(from)) * Unit(to) + Origin(to)
ReprojectPart(p, from, to) == [i \in DOMAIN p |-> Reproject(p[i], from, to)]

\* geom.transform(srid, clone=True): a new geometry in the target SRID.
Transform(g, srid) ==
    [g EXCEPT !.srid = srid,
              !.parts = {ReprojectPart(p, g.srid, srid) : p \in g.parts}]

\* bool(geom): None is false, and so is a collection with no members
\* (GEOS collections define __len__).
Truthy(g) == g # NULL /\ g.parts # {}

\* geom.wkt: the text form carries the type and the coordinates, no SRID.
Wkt(g) == [type |-> g.type, parts |-> g.parts]
IsWkt(v) == v # NULL /\ "srid" \notin DOMAIN v

\* OGRGeometry(OGRGeomType('MultiLineString')): an empty OGR shell.
OGRMultiShell == [type |-> "MultiLineString", parts |-> {}]
\* ml.add(wkt): the part built from the text joins the collection.
OGRAdd(ml, wkt) == [ml EXCEPT !.parts = ml.parts \cup wkt.parts]

\* Storing a value in a geometry field of the given SRID
\* (GeometryProxy): None stays None, text is read as a geometry in the
\* field's SRID, a geometry keeps its own SRID.
FieldValue(v, srid) ==
    IF v = NULL THEN NULL
    ELSE IF IsWkt(v) THEN [type |-> v.type, srid |-> srid, parts |-> v.parts]
    ELSE v

(***************************************************************************)
(* The simplification primitive: geom.simplify(tolerance, True).           *)
(***************************************************************************)
Min(a, b) == IF a <= b THEN a ELSE b
Max(a, b) == IF a >= b THEN a ELSE b
\* Distance of vertex v from the chord between the end points a and b.
ChordDistance(v, a, b) ==
    IF v < Min(a, b) THEN Min(a, b) - v
    ELSE IF v > Max(a, b) THEN v - Max(a, b)
    ELSE 0

RECURSIVE KeepFrom(_, _, _)
\* The vertices of part p from index i on that the reduction keeps: the end
\* points, and the inner vertices farther than the tolerance from the chord.
KeepFrom(p, i, tolerance) ==
    IF i > Len(p) THEN <<>>
    ELSE IF i = 1 \/ i = Len(p) \/ ChordDistance(p[i], p[1], p[Len(p)]) > tolerance
         THEN <<p[i]>> \o KeepFrom(p, i + 1, tolerance)
         ELSE KeepFrom(p, i + 1, tolerance)
SimplifyPart(p, tolerance) == KeepFrom(p, 1, tolerance)

\* The primitive keeps the collection type, or (degenerate) hands back a
\* single-part LineString when one part is left: which of the two is the
\* geometry library's choice.
Simplify(g, tolerance, degenerate) ==
    LET parts == {SimplifyPart(p, tolerance) : p \in g.parts}
    IN  IF degenerate /\ Cardinality(parts) = 1
        THEN [type |-> "LineString", srid |-> g.srid, parts |-> parts]
        ELSE [type |-> g.type, srid |-> g.srid, parts |-> parts]

(***************************************************************************)
(* Sync: Line.set_linestrings and Stop.set_point.                          *)
(***************************************************************************)
RECURSIVE RemoveFirst(_, _)
\* list.remove(x): drops the first occurrence of x.
RemoveFirst(s, x) ==
    IF s = <<>> THEN <<>>
    ELSE IF Head(s) = x THEN Tail(s)
    ELSE <<Head(s)>> \o RemoveFirst(Tail(s), x)

\* One round of the loop with the transform forgotten: the canonical datum
\* itself lands in the target field.
SyncStep_NoTransform(fields, canonical_data, srid) ==
    [fields EXCEPT ![srid] = FieldValue(canonical_data, srid)]

\* One round of the loop: copy = canonical_data.transform(srid, clone=True);
\* setattr(self, this_field, copy).
SyncStep(fields, canonical_data, srid) ==
    [fields EXCEPT ![srid] = FieldValue(Transform(canonical_data, srid), srid)]

RECURSIVE SyncLoop(_, _, _)
\* for srid in srid_list: ...
SyncLoop(fields, canonical_data, srid_list) ==
    IF srid_list = <<>> THEN fields
    ELSE SyncLoop(SyncStep(fields, canonical_data, Head(srid_list)),
                  canonical_data, Tail(srid_list))

\* The body shared by set_linestrings and set_point: the fields afterwards
\* and how the call ended.
SyncFields(fields, all_srids, canonical_srid) ==
    IF canonical_srid \notin Range(all_srids)
    THEN [fields |-> fields, ret |-> "ValueError"]
    ELSE LET canonical_data == fields[canonical_srid]
             srid_list == RemoveFirst(all_srids, canonical_srid)
         IN  IF srid_list # <<>> /\ canonical_data = NULL
             THEN \* None has no transform: the first round raises
                  [fields |-> fields, ret |-> "AttributeError"]
             ELSE [fields |-> SyncLoop(fields, canonical_data, srid_list),
                   ret |-> "True"]

\* Line.set_linestrings(canonical_srid)
set_linestrings(self, canonical_srid) ==
    LET r == SyncFields(self.linestring, LineSRIDs, canonical_srid)
    IN  [self |-> [self EXCEPT !.linestring = r.fields], ret |-> r.ret]

\* Stop.set_point(canonical_srid)
set_point(self, canonical_srid) ==
    LET r == SyncFields(self.point, PointSRIDs, canonical_srid)
    IN  [self |-> [self EXCEPT !.point = r.fields], ret |-> r.ret]

(***************************************************************************)
(* Simplify: Line.set_simple_linestrings.                                  *)
(***************************************************************************)
\* What simplify() hands back for one SRID's source field.
SimpleOf(source, srid, tolerance, degenerate) ==
    LET copy == IF srid # SimplifySRID THEN Transform(source, SimplifySRID)
                ELSE source
    IN  Simplify(copy, tolerance, degenerate)

\* The type branch with the multi-part shell forgotten: the single part is
\* stored as it came.
SimpleTarget_NoShell(simple, srid) ==
    Wkt(Transform(simple, srid))

\* The type branch: a LineString is transformed back and put into a
\* MultiLineString shell, anything else is transformed back; the target is
\* the text form.
SimpleTarget(simple, srid) ==
    IF simple.type = "LineString"
    THEN OGRAdd(OGRMultiShell, Wkt(Transform(simple, srid)))
    ELSE Wkt(Transform(simple, srid))

\* One round of the loop: the value the simplified field of srid gets.
SimpleField(source, srid, tolerance, degenerate) ==
    IF ~Truthy(source) THEN NULL
    ELSE FieldValue(SimpleTarget(SimpleOf(source, srid, tolerance, degenerate), srid), srid)

RECURSIVE SimpleLoop_DropOut(_, _, _, _, _)
\* The loop with "drop out" taken at its word: the first empty source ends
\* the whole call instead of the round.
SimpleLoop_DropOut(simple, linestring, srid_list, tolerance, degenerate) ==
    IF srid_list = <<>> THEN simple
    ELSE LET srid == Head(srid_list)
             next == [simple EXCEPT ![srid] =
                         SimpleField(linestring[srid], srid, tolerance,
                                     degenerate[srid])]
         IN  IF ~Truthy(linestring[srid]) THEN next
             ELSE SimpleLoop_DropOut(next, linestring, Tail(srid_list),
                                     tolerance, degenerate)

RECURSIVE SimpleLoop(_, _, _, _, _)
\* for srid in srid_list: ... setattr(self, target_field_name, ...)
SimpleLoop(simple, linestring, srid_list, tolerance, degenerate) ==
    IF srid_list = <<>> THEN simple
    ELSE LET srid == Head(srid_list)
         IN  SimpleLoop([simple EXCEPT ![srid] =
                            SimpleField(linestring[srid], srid, tolerance,
                                        degenerate[srid])],
                        linestring, Tail(srid_list), tolerance, degenerate)

\* Line.set_simple_linestrings(tolerance); degenerate[srid] is the
\* primitive's choice for that SRID's geometry.
set_simple_linestrings(self, tolerance, degenerate) ==
    [self |-> [self EXCEPT !.simple_linestring =
                  SimpleLoop(self.simple_linestring, self.linestring,
                             LineSRIDs, tolerance, degenerate)],
     ret |-> "True"]

(***************************************************************************)
(* The store (the three tables behind Line.objects, Stop.objects and       *)
(* Station.objects), the files the loader reads, and the loader's          *)
(* position.                                                               *)
(***************************************************************************)
VARIABLES
    pc,              \* the function load.all() runs next, or idle / done / failed
    error,           \* the exception that ended the run: [type, at]
    LineObjects,     \* the rows of Line
    StopObjects,     \* the rows of Stop, each with its line set (the m2m rows)
    StationObjects,  \* the rows of Station, each with its line set
    next_id,         \* the next primary key of each table
    reloads,         \* how many times load.all() was started
    files,           \* the data files read so far: name -> content
    stop_lookup,     \* stations(): the crosswalk dictionary
    todo,            \* stations(): the ids of the Stops still to process
    stop,            \* stations(): the id of the Stop of the current round
    pre,             \* the rows of the store when load.all() was started
    strict_lengths,  \* whether the database rejects a value longer than its column
    obj,             \* SpecEntity: the Line or Stop instance in memory
    call             \* SpecEntity: the last method call: [op, arg, ret, ...]

store_vars == <<LineObjects, StopObjects, StationObjects, next_id>>
loader_vars == <<pc, error, reloads, files, stop_lookup, todo, stop, pre,
                 strict_lengths>>
entity_vars == <<obj, call>>
vars == <<pc, error, LineObjects, StopObjects, StationObjects, next_id,
          reloads, files, stop_lookup, todo, stop, pre, strict_lengths,
          obj, call>>

\* A null foreign key (Stop.station, null=True).
NoStation == 0

\* django.template.defaultfilters.slugify on the names of the data files:
\* lower case, spaces to hyphens.
slugify(name) ==
    CASE name = "Red" -> "red"
      [] name = "Gold" -> "gold"
      [] name = "Union Station" -> "union-station"
      [] name = "Civic Center" -> "civic-center"
      [] name = "Willowbrook Rosa Parks Transit Center South Plaza"
            -> "willowbrook-rosa-parks-transit-center-south-plaza"
      [] OTHER -> ""

\* str(stop.stop_id)
str(n) ==
    CASE n = 1 -> "1"
      [] n = 2 -> "2"
      [] n = 3 -> "3"
      [] OTHER -> "None"

\* Meta.ordering = ('name',): the Line names in ascending order.
NameOrder == <<"Gold", "Red">>

(***************************************************************************)
(* The data files.                                                         *)
(***************************************************************************)
\* RailLines1109.shp: features with a Name and a LineString in SRID 2229,
\* listed by Name.  The i-th feature of the file is the i-th fragment of
\* track (every other one with a vertex the simplification drops); a name
\* may come on any number of features.
Fragment(i) ==
    LET a == 6000 + 3000 * (i - 1)
    IN  IF i % 2 = 1 THEN LineString(2229, <<a, a + 300, a + 3000>>)
        ELSE LineString(2229, <<a, a + 6000, a + 3>>)
NameIndex(name) == CHOOSE i \in DOMAIN NameOrder : NameOrder[i] = name
LinesFiles ==
    UNION {{[i \in 1..n |-> [Name |-> names[i], LineString |-> Fragment(i)]] :
               names \in {f \in [1..n -> Range(NameOrder)] :
                             \A i, j \in 1..n :
                                i < j => NameIndex(f[i]) <= NameIndex(f[j])}}
           : n \in 0..MaxLineFeatures}

\* RailStations1109.shp: features with STOP_ID, STOP_NAME and a Point in
\* SRID 4269, listed by STOP_ID; two features may carry the same STOP_ID.
StopIds == {1, 2}
StopFeature(stop_id) ==
    [STOP_ID |-> stop_id, STOP_NAME |-> "raw", Point |-> Point(4269, stop_id - 118)]
StationsFiles ==
    UNION {{f \in [1..n -> {StopFeature(i) : i \in StopIds}] :
               \A i, j \in 1..n : i < j => f[i].STOP_ID <= f[j].STOP_ID}
           : n \in 0..MaxStopFeatures}

\* crosswalk.csv as the dictionary stations() builds from it: stop_id text
\* -> row; an empty cell reads as "".
CrosswalkRows ==
    {[clean_station_name |-> "Union Station", Line1 |-> "Red", Line2 |-> ""],
     [clean_station_name |-> "Union Station", Line1 |-> "", Line2 |-> "Gold"],
     [clean_station_name |-> "Civic Center", Line1 |-> "Red", Line2 |-> "Gold"],
     [clean_station_name |-> "Willowbrook Rosa Parks Transit Center South Plaza",
      Line1 |-> "Red", Line2 |-> ""]}
CrosswalkFiles ==
    UNION {[keys -> CrosswalkRows] : keys \in SUBSET {str(i) : i \in StopIds}}

\* The content of a file: what it was when first read, or any content the
\* first time.
FileIs(name, content, contents) ==
    /\ content \in contents
    /\ name \in DOMAIN files => content = files[name]
    /\ files' = [n \in DOMAIN files \cup {name} |->
                    IF n = name THEN content ELSE files[n]]

(***************************************************************************)
(* Rows.                                                                   *)
(***************************************************************************)
NoGeometry(srid_list) == [srid \in Range(srid_list) |-> NULL]

\* LayerMapping's save of one line feature: the LineString becomes the
\* MultiLineString of the field linestring_2229; all else is left unset.
NewLine(id, name, geom) ==
    [id |-> id, name |-> name, slug |-> "",
     linestring |-> [NoGeometry(LineSRIDs) EXCEPT ![2229] = FieldValue(geom, 2229)],
     simple_linestring |-> NoGeometry(LineSRIDs)]

\* LayerMapping's save of one stop feature.
NewStop(id, f) ==
    [id |-> id, stop_id |-> f.STOP_ID, name |-> f.STOP_NAME, slug |-> <<>>,
     station |-> NoStation, lines |-> {},
     point |-> [NoGeometry(PointSRIDs) EXCEPT ![4269] = f.Point]]

\* make_multi: a single-part feature geometry for a multi-part field.
MakeMulti(g) ==
    IF g.type = "LineString" THEN [g EXCEPT !.type = "MultiLineString"] ELSE g

Store == [Line |-> LineObjects, Stop |-> StopObjects, Station |-> StationObjects,
          next_id |-> next_id]

\* The run ends with an exception and the store is restored to what it was
\* when the run began.
Abort_Rollback(type, at, after) ==
    /\ pc' = "failed"
    /\ error' = [type |-> type, at |-> at]
    /\ LineObjects' = pre.Line
    /\ StopObjects' = pre.Stop
    /\ StationObjects' = pre.Station
    /\ next_id' = after.next_id

\* The run ends with an exception: load.all() has no handler, and what the
\* failing function wrote before the exception stays written.
Abort(type, at, after) ==
    /\ pc' = "failed"
    /\ error' = [type |-> type, at |-> at]
    /\ LineObjects' = after.Line
    /\ StopObjects' = after.Stop
    /\ StationObjects' = after.Station
    /\ next_id' = after.next_id

\* A function of load.all() returns and the next one starts.
Proceed(next, after) ==
    /\ pc' = next
    /\ error' = error
    /\ LineObjects' = after.Line
    /\ StopObjects' = after.Stop
    /\ StationObjects' = after.Station
    /\ next_id' = after.next_id

(***************************************************************************)
(* load.all(): the three deletes.                                          *)
(***************************************************************************)
all ==
    /\ pc \in {"idle", "done", "failed"}
    /\ reloads < MaxReloads
    /\ reloads' = reloads + 1
    /\ pre' = [Line |-> LineObjects, Stop |-> StopObjects, Station |-> StationObjects]
    /\ pc' = "lines"
    /\ error' = [type |-> "", at |-> ""]
    /\ LineObjects' = {}
    /\ StopObjects' = {}
    /\ StationObjects' = {}
    /\ UNCHANGED <<next_id, files, stop_lookup, todo, stop, strict_lengths,
                   obj, call>>

(***************************************************************************)
(* load.lines()                                                            *)
(***************************************************************************)
lines ==
    /\ pc = "lines"
    /\ \E f \in LinesFiles :
          /\ FileIs("lines_file", f, LinesFiles)
          /\ Proceed("fix_line_dupes",
                 [Store EXCEPT
                    !.Line = LineObjects \cup
                        {NewLine(next_id.Line + i - 1, f[i].Name,
                                 MakeMulti(f[i].LineString)) : i \in DOMAIN f},
                    !.next_id = [next_id EXCEPT !.Line = @ + Len(f)]])
    /\ UNCHANGED <<reloads, stop_lookup, todo, stop, pre, strict_lengths,
                   obj, call>>


(***************************************************************************)
(* load.fix_line_dupes()                                                   *)
(***************************************************************************)
\* Line.objects.values('name').annotate(count=Count('name'))
\*     .filter(count__gt=1): the names more than one row carries, by name.
dupe_list(Lines) ==
    SelectSeq(NameOrder,
              LAMBDA n : Cardinality({l \in Lines : l.name = n}) > 1)

\* this_list.unionagg(): the union aggregate over the canonical
\* geometries of the rows; NULL geometries do not take part.
unionagg(this_list) ==
    MultiLineString(2229,
        UNION {l.linestring[2229].parts :
                  l \in {m \in this_list : m.linestring[2229] # NULL}})

\* One round with the originals kept: the delete is forgotten.
FixDupe_KeepOriginals(Lines, id, name) ==
    LET this_list == {l \in Lines : l.name = name}
        this_obj == NewLine(id, name, unionagg(this_list))
    IN  Lines \cup {this_obj}

\* One round of the loop for one duplicated name: create the merged row,
\* then delete every row of that name but the new one.
FixDupe(Lines, id, name) ==
    LET this_list == {l \in Lines : l.name = name}
        this_multilinestring == unionagg(this_list)
        this_obj == NewLine(id, name, this_multilinestring)
        created == Lines \cup {this_obj}
    IN  created \ {l \in created : l.name = name /\ l.id # this_obj.id}

RECURSIVE FixLoop_SkipFailed(_, _, _)
\* The loop with a handler around each round: a failing union skips its
\* group and the loop goes on.
FixLoop_SkipFailed(after, dupes, failing) ==
    IF dupes = <<>> THEN [after |-> after, err |-> ""]
    ELSE IF Head(dupes) \in failing
    THEN FixLoop_SkipFailed(after, Tail(dupes), failing)
    ELSE FixLoop_SkipFailed(
             [after EXCEPT !.Line = FixDupe(after.Line, after.next_id.Line, Head(dupes)),
                           !.next_id = [after.next_id EXCEPT !.Line = @ + 1]],
             Tail(dupes), failing)

RECURSIVE FixLoop(_, _, _)
\* for dupe in dupe_list: ...   failing is the set of names whose union the
\* geometry store cannot compute; the exception leaves the loop.
FixLoop(after, dupes, failing) ==
    IF dupes = <<>> THEN [after |-> after, err |-> ""]
    ELSE IF Head(dupes) \in failing
    THEN [after |-> after, err |-> Head(dupes)]
    ELSE FixLoop(
             [after EXCEPT !.Line = FixDupe(after.Line, after.next_id.Line, Head(dupes)),
                           !.next_id = [after.next_id EXCEPT !.Line = @ + 1]],
             Tail(dupes), failing)

fix_line_dupes ==
    /\ pc = "fix_line_dupes"
    /\ \E failing \in SUBSET Range(dupe_list(LineObjects)) :
          LET r == FixLoop(Store, dupe_list(LineObjects), failing)
          IN  IF r.err = ""
              THEN Proceed("line_extras", r.after)
              ELSE Abort("UnionError", r.err, r.after)
    /\ UNCHANGED <<reloads, files, stop_lookup, todo, stop, pre, strict_lengths,
                   obj, call>>

(***************************************************************************)
(* load.line_extras()                                                      *)
(***************************************************************************)
RECURSIVE OrderedIds(_, _)
\* The ids of rows in the order of keys (one row per key value at a time:
\* rows that share a key come in the order the database picks).
OrderedIds(rows, key_order) ==
    IF key_order = <<>> THEN {<<>>}
    ELSE LET here == {r \in rows : r.key = Head(key_order)}
             hereIds == {r.id : r \in here}
             perms == {p \in [1..Cardinality(hereIds) -> hereIds] :
                          \A i, j \in DOMAIN p : i # j => p[i] # p[j]}
         IN  {p \o q : p \in perms, q \in OrderedIds(rows, Tail(key_order))}

\* One round of the loop: slug, set_linestrings(), set_simple_linestrings().
LineExtras(l, degenerate) ==
    LET slugged == [l EXCEPT !.slug = slugify(l.name)]
        synced == set_linestrings(slugged, LineCanonicalSRID)
    IN  IF synced.ret # "True" THEN [self |-> l, ret |-> synced.ret]
        ELSE set_simple_linestrings(synced.self, DefaultTolerance,
                                    [srid \in Range(LineSRIDs) |-> degenerate])

RECURSIVE ExtrasLoop(_, _, _)
\* for obj in Line.objects.all(): ... obj.save()
ExtrasLoop(Lines, ids, degenerate) ==
    IF ids = <<>> THEN [Lines |-> Lines, err |-> "", at |-> 0]
    ELSE LET l == CHOOSE x \in Lines : x.id = Head(ids)
             r == LineExtras(l, degenerate)
         IN  IF r.ret # "True" THEN [Lines |-> Lines, err |-> r.ret, at |-> l.id]
             ELSE ExtrasLoop((Lines \ {l}) \cup {r.self}, Tail(ids), degenerate)

line_extras ==
    /\ pc = "line_extras"
    /\ \E degenerate \in BOOLEAN :
       \E ids \in OrderedIds({[key |-> l.name, id |-> l.id] : l \in LineObjects},
                             NameOrder) :
          LET r == ExtrasLoop(LineObjects, ids, degenerate)
          IN  IF r.err = ""
              THEN Proceed("stops", [Store EXCEPT !.Line = r.Lines])
              ELSE Abort(r.err, r.at, [Store EXCEPT !.Line = r.Lines])
    /\ UNCHANGED <<reloads, files, stop_lookup, todo, stop, pre, strict_lengths,
                   obj, call>>

(***************************************************************************)
(* load.stops()                                                            *)
(***************************************************************************)
stops ==
    /\ pc = "stops"
    /\ \E f \in StationsFiles :
          /\ FileIs("stations_file", f, StationsFiles)
          /\ Proceed("stations",
                 [Store EXCEPT
                    !.Stop = StopObjects \cup
                        {NewStop(next_id.Stop + i - 1, f[i]) : i \in DOMAIN f},
                    !.next_id = [next_id EXCEPT !.Stop = @ + Len(f)]])
    /\ UNCHANGED <<reloads, stop_lookup, todo, stop, pre, strict_lengths,
                   obj, call>>


(***************************************************************************)
(* load.stations()                                                         *)
(***************************************************************************)
\* The lookup with a default in place of the exception: a missing key
\* reads as an empty row.
CrosswalkEntry_Default(lookup, key) ==
    IF key \in DOMAIN lookup THEN [found |-> TRUE, row |-> lookup[key]]
    ELSE [found |-> TRUE,
          row |-> [clean_station_name |-> "", Line1 |-> "", Line2 |-> ""]]

\* stop_lookup[str(stop.stop_id)]: the row, or KeyError.
CrosswalkEntry(lookup, key) ==
    IF key \in DOMAIN lookup THEN [found |-> TRUE, row |-> lookup[key]]
    ELSE [found |-> FALSE]

\* Line.objects.get(name=name)
LineGet(Lines, name) ==
    LET m == {l \in Lines : l.name = name}
    IN  IF m = {} THEN [err |-> "DoesNotExist", id |-> 0]
        ELSE IF Cardinality(m) > 1 THEN [err |-> "MultipleObjectsReturned", id |-> 0]
        ELSE [err |-> "", id |-> (CHOOSE l \in m : TRUE).id]

\* if this_crosswalk.get(column, None):
\*     stop.lines.add(Line.objects.get(name=this_crosswalk.get(column)))
\* r is the store so far and the exception raised so far, pk the Stop's id.
AddLine(r, pk, line_name) ==
    IF r.err # "" \/ line_name = "" THEN r
    ELSE LET g == LineGet(r.after.Line, line_name)
         IN  IF g.err # "" THEN [r EXCEPT !.err = g.err]
             ELSE [r EXCEPT !.after.Stop =
                      {IF s.id = pk THEN [s EXCEPT !.lines = @ \cup {g.id}] ELSE s
                          : s \in @}]

\* Station.objects.get_or_create(name=..., slug=slugify(...))
StationGetOrCreate(after, name) ==
    LET m == {t \in after.Station : t.name = name /\ t.slug = slugify(name)}
        id == after.next_id.Station
    IN  IF m = {}
        THEN [after |-> [after EXCEPT
                            !.Station = @ \cup {[id |-> id, name |-> name,
                                                 slug |-> slugify(name), lines |-> {}]},
                            !.next_id = [@ EXCEPT !.Station = id + 1]],
              id |-> id, created |-> TRUE, err |-> ""]
        ELSE IF Cardinality(m) > 1
        THEN [after |-> after, id |-> 0, created |-> FALSE,
              err |-> "MultipleObjectsReturned"]
        ELSE [after |-> after, id |-> (CHOOSE t \in m : TRUE).id,
              created |-> FALSE, err |-> ""]

\* SlugField(blank=True, null=True): max_length is 50 by default.
SlugMaxLength == 50

\* The length of a Stop's slug: slugify(stop.name) + "-" + str(stop.stop_id).
SlugLength(slug) == Len(slug[1]) + Len(slug[2]) + Len(slug[3])

\* stop.save() raises when the database rejects the row: save() runs no
\* validation, so an over-long slug reaches the database, which rejects it
\* or stores it as its backend does.
SaveRejected(slug) == strict_lengths /\ SlugLength(slug) > SlugMaxLength

\* stop.station = station; stop.save(): name, slug and station reach the row.
SaveStop(after, pk, name, slug, station) ==
    [after EXCEPT !.Stop =
        {IF s.id = pk
         THEN [s EXCEPT !.name = name, !.slug = slug, !.station = station]
         ELSE s : s \in @}]

\* The station's line set replaced by the stop's, not joined with it.
AddStopLines_Overwrite(after, station, created, stop_lines) ==
    [after EXCEPT !.Station =
        {IF t.id = station THEN [t EXCEPT !.lines = stop_lines] ELSE t : t \in @}]

\* The lines added only to a station this round created.
AddStopLines_OnlyWhenCreated(after, station, created, stop_lines) ==
    [after EXCEPT !.Station =
        {IF t.id = station /\ created THEN [t EXCEPT !.lines = @ \cup stop_lines]
         ELSE t : t \in @}]

\* for line in stop.lines.all(): station.lines.add(line); station.save()
AddStopLines(after, station, created, stop_lines) ==
    [after EXCEPT !.Station =
        {IF t.id = station THEN [t EXCEPT !.lines = @ \cup stop_lines] ELSE t
            : t \in @}]

StopRow(after, pk) == CHOOSE s \in after.Stop : s.id = pk

\* One round of the loop, for the Stop with id pk: the store afterwards and
\* the exception that ended the round, if any.
RollupStop(before, pk, lookup) ==
    LET st == StopRow(before, pk)
        e == CrosswalkEntry(lookup, str(st.stop_id))
    IN  IF ~e.found THEN [after |-> before, err |-> "KeyError"]
        ELSE
        LET this_crosswalk == e.row
            name == this_crosswalk.clean_station_name
            slug == <<slugify(name), "-", str(st.stop_id)>>
            l1 == AddLine([after |-> before, err |-> ""], pk, this_crosswalk.Line1)
            l2 == AddLine(l1, pk, this_crosswalk.Line2)
        IN  IF l2.err # "" THEN l2
            ELSE
            LET g == StationGetOrCreate(l2.after, name)
            IN  IF g.err # "" THEN [after |-> g.after, err |-> g.err]
                ELSE IF SaveRejected(slug)
                THEN [after |-> g.after, err |-> "DataError"]
                ELSE
                LET saved == SaveStop(g.after, pk, name, slug, g.id)
                IN  [after |-> AddStopLines(saved, g.id, g.created,
                                            StopRow(saved, pk).lines),
                     err |-> ""]

\* crosswalk = csv.DictReader(open(crosswalk_file)); stop_lookup = dict(...);
\* and the query of the loop, Stop.objects.all().
stations_open ==
    /\ pc = "stations"
    /\ \E f \in CrosswalkFiles :
          /\ FileIs("crosswalk_file", f, CrosswalkFiles)
          /\ stop_lookup' = f
    /\ todo' = {s.id : s \in StopObjects}
    /\ pc' = IF StopObjects = {} THEN "done" ELSE "stations_loop"
    /\ UNCHANGED <<error, store_vars, reloads, stop, pre, strict_lengths,
                   obj, call>>

\* One round of "for stop in Stop.objects.all()": Meta.ordering is
\* ('stop_id',), so the round takes a Stop of the least stop_id left.
stations_stop ==
    /\ pc = "stations_loop"
    /\ \E pk \in todo :
          /\ \A other \in todo :
                StopRow(Store, pk).stop_id <= StopRow(Store, other).stop_id
          /\ stop' = pk
          /\ todo' = todo \ {pk}
          /\ LET r == RollupStop(Store, pk, stop_lookup)
             IN  IF r.err # "" THEN Abort(r.err, pk, r.after)
                 ELSE Proceed(IF todo = {pk} THEN "done" ELSE "stations_loop",
                              r.after)
    /\ UNCHANGED <<reloads, files, stop_lookup, pre, strict_lengths, obj, call>>


(***************************************************************************)
(* The loader's specification.                                             *)
(***************************************************************************)
NoObject == [kind |-> "none"]
NoCall == [op |-> "", arg |-> 0, ret |-> ""]

InitLoader ==
    /\ pc = "idle"
    /\ error = [type |-> "", at |-> ""]
    /\ LineObjects = {}
    /\ StopObjects = {}
    /\ StationObjects = {}
    /\ next_id = [Line |-> 1, Stop |-> 1, Station |-> 1]
    /\ reloads = 0
    /\ files = <<>>
    /\ stop_lookup = <<>>
    /\ todo = {}
    /\ stop = 0
    /\ pre = [Line |-> {}, Stop |-> {}, Station |-> {}]
    /\ strict_lengths \in BOOLEAN

Init ==
    /\ InitLoader
    /\ obj = NoObject
    /\ call = NoCall

Next ==
    \/ all
    \/ lines
    \/ fix_line_dupes
    \/ line_extras
    \/ stops
    \/ stations_open
    \/ stations_stop

Spec == Init /\ [][Next]_vars

(***************************************************************************)
(* The methods of one instance in memory.                                  *)
(***************************************************************************)
\* Two shapes, given in SRID 2229: one part, and two parts.
ShapeX == MultiLineString(2229, {<<6000, 6300, 9000>>})
ShapeY == MultiLineString(2229, {<<6000, 9000>>, <<9000, 12000, 9003>>})

\* What a MultiLineStringField of the given SRID may hold.
LineFieldValues(srid) ==
    {NULL, MultiLineString(srid, {}), Transform(ShapeX, srid), Transform(ShapeY, srid)}
\* What a PointField of the given SRID may hold.
PointFieldValues(srid) ==
    {NULL, Transform(Point(4269, -117), srid), Transform(Point(4269, -116), srid)}

LineInstances ==
    {[kind |-> "Line", linestring |-> ls, simple_linestring |-> sl] :
        ls \in {f \in [Range(LineSRIDs) -> UNION {LineFieldValues(s) : s \in Range(LineSRIDs)}] :
                   \A s \in Range(LineSRIDs) : f[s] \in LineFieldValues(s)},
        sl \in {NoGeometry(LineSRIDs),
                [s \in Range(LineSRIDs) |-> Transform(ShapeX, s)]}}
StopInstances ==
    {[kind |-> "Stop", point |-> pt] :
        pt \in {f \in [Range(PointSRIDs) -> UNION {PointFieldValues(s) : s \in Range(PointSRIDs)}] :
                   \A s \in Range(PointSRIDs) : f[s] \in PointFieldValues(s)}}

InitEntity ==
    /\ InitLoader
    /\ obj \in LineInstances \cup StopInstances
    /\ call = NoCall

\* line.set_linestrings(canonical_srid), with an SRID of the model or not
Line_set_linestrings ==
    /\ obj.kind = "Line"
    /\ \E canonical_srid \in Range(LineSRIDs) \cup {3857} :
          LET r == set_linestrings(obj, canonical_srid)
          IN  /\ obj' = r.self
              /\ call' = [op |-> "set_linestrings", arg |-> canonical_srid,
                          ret |-> r.ret]
    /\ UNCHANGED <<store_vars, loader_vars>>

\* line.set_simple_linestrings(tolerance)
Line_set_simple_linestrings ==
    /\ obj.kind = "Line"
    /\ \E tolerance \in {DefaultTolerance} :
       \E degenerate \in [Range(LineSRIDs) -> BOOLEAN] :
          LET r == set_simple_linestrings(obj, tolerance, degenerate)
          IN  /\ obj' = r.self
              /\ call' = [op |-> "set_simple_linestrings", arg |-> tolerance,
                          ret |-> r.ret,
                          simple |-> [srid \in Range(LineSRIDs) |->
                              IF Truthy(obj.linestring[srid])
                              THEN SimpleOf(obj.linestring[srid], srid, tolerance,
                                            degenerate[srid]).type
                              ELSE ""]]
    /\ UNCHANGED <<store_vars, loader_vars>>

\* stop.set_point(canonical_srid)
Stop_set_point ==
    /\ obj.kind = "Stop"
    /\ \E canonical_srid \in Range(PointSRIDs) \cup {2229} :
          LET r == set_point(obj, canonical_srid)
          IN  /\ obj' = r.self
              /\ call' = [op |-> "set_point", arg |-> canonical_srid, ret |-> r.ret]
    /\ UNCHANGED <<store_vars, loader_vars>>

NextEntity ==
    \/ Line_set_linestrings
    \/ Line_set_simple_linestrings
    \/ Stop_set_point

SpecEntity == InitEntity /\ [][NextEntity]_vars


(***************************************************************************)
(* Claims about consolidation (fix_line_dupes).                            *)
(***************************************************************************)
Named(Lines, name) == {l \in Lines : l.name = name}
Ids(rows) == {r.id : r \in rows}
\* The union of the canonical geometries of rows, stated on its own.
UnionOfCanonical(rows) ==
    [type |-> "MultiLineString", srid |-> 2229,
     parts |-> UNION {l.linestring[2229].parts : l \in rows}]

\* A group of originals merged by the step: one row of that name is left,
\* it is new, it carries the union, and no original is left.
Consolidated(before, after, name) ==
    /\ Cardinality(Named(after, name)) = 1
    /\ \A m \in Named(after, name) :
          /\ m.id \notin Ids(before)
          /\ m.linestring[2229] = UnionOfCanonical(Named(before, name))
    /\ Named(before, name) \cap after = {}
    /\ Ids(Named(before, name)) \cap Ids(after) = {}

\* C1: when consolidation completes, every name that more than one Line
\* carried is left with exactly one Line, a newly created row whose
\* canonical geometry is the union of the canonical geometries of the
\* originals of that name, none of which exists any more; and every Line
\* whose name one row carried is the same row with the same geometry.
C1_Consolidation ==
    [][(pc = "fix_line_dupes" /\ pc' = "line_extras") =>
          \A name \in Range(NameOrder) :
             /\ Cardinality(Named(LineObjects, name)) > 1 =>
                   Consolidated(LineObjects, LineObjects', name)
             /\ Cardinality(Named(LineObjects, name)) <= 1 =>
                   Named(LineObjects', name) = Named(LineObjects, name)]_vars

\* C1 witness: consolidation has completed on a file with three fragments
\* of one name and a single feature of the other.
C1_Witness ==
    /\ pc = "line_extras"
    /\ \E big, single \in Range(NameOrder) :
          /\ Cardinality({i \in DOMAIN files.lines_file :
                             files.lines_file[i].Name = big}) = 3
          /\ Cardinality({i \in DOMAIN files.lines_file :
                             files.lines_file[i].Name = single}) = 1
          /\ \E m \in LineObjects : m.name = big /\ Cardinality(m.linestring[2229].parts) = 3
          /\ \E m \in LineObjects : m.name = single /\ Cardinality(m.linestring[2229].parts) = 1

\* C4 as stated: when the union fails for one group, that group's originals
\* stay and it gets no merged row, and every other duplicate group is still
\* consolidated.
C4_AsStated ==
    [][(pc = "fix_line_dupes" /\ pc' = "failed") =>
          /\ Named(LineObjects', error'.at) = Named(LineObjects, error'.at)
          /\ \A name \in Range(dupe_list(LineObjects)) \ {error'.at} :
                Consolidated(LineObjects, LineObjects', name)]_vars

\* C4 amended: consolidation either completes, leaving no name on more than
\* one Line, or ends with the exception of the first failing union; then
\* the failing group keeps all its originals and gets no merged row, the
\* duplicate groups before it (by name) are consolidated, and the groups
\* after it are left as they were.
C4_FailureEndsConsolidation ==
    [][pc = "fix_line_dupes" =>
          \/ /\ pc' = "line_extras"
             /\ dupe_list(LineObjects') = <<>>
          \/ /\ pc' = "failed"
             /\ error'.type = "UnionError"
             /\ error'.at \in Range(dupe_list(LineObjects))
             /\ Named(LineObjects', error'.at) = Named(LineObjects, error'.at)
             /\ \A name \in Range(dupe_list(LineObjects)) \ {error'.at} :
                   IF NameIndex(name) < NameIndex(error'.at)
                   THEN Consolidated(LineObjects, LineObjects', name)
                   ELSE Named(LineObjects', name) = Named(LineObjects, name)]_vars

\* C4 witness: the union of the first of two duplicate groups failed; the
\* run is over and both groups still have their fragments.
C4_Witness ==
    /\ pc = "failed"
    /\ error.type = "UnionError"
    /\ Len(dupe_list(LineObjects)) = 2
    /\ error.at = dupe_list(LineObjects)[1]


(***************************************************************************)
(* Claims about the rollup (stations) and the reload (all).                *)
(***************************************************************************)
StopsOf(station) == {s \in StopObjects : s.station = station.id}

\* C2: when the rollup has finished, every Stop has a Station of the store,
\* and every Station's line set is exactly the union of the line sets of
\* the Stops assigned to it.
C2_RollupCompleteness ==
    pc = "done" =>
       /\ \A s \in StopObjects :
             /\ s.station # NoStation
             /\ \E t \in StationObjects : t.id = s.station
       /\ \A t \in StationObjects :
             t.lines = UNION {s.lines : s \in StopsOf(t)}

\* C2 witness: the rollup has finished and a Station holds two Stops with
\* different line sets.
C2_Witness ==
    /\ pc = "done"
    /\ \E t \in StationObjects :
          \E s1, s2 \in StopsOf(t) :
             /\ s1.lines # s2.lines
             /\ s1.lines # {}
             /\ s2.lines # {}

\* C3: the round of a Stop whose stop_id has no crosswalk entry ends the
\* rollup with the missing-key error for that Stop; the round creates no
\* Station and the Stop's station and line set stay as they were (null and
\* empty).
C3_MissingCrosswalkEntry ==
    [][(pc = "stations_loop"
        /\ str(StopRow(Store, stop').stop_id) \notin DOMAIN stop_lookup) =>
          /\ pc' = "failed"
          /\ error' = [type |-> "KeyError", at |-> stop']
          /\ StationObjects' = StationObjects
          /\ StopObjects' = StopObjects
          /\ \E s \in StopObjects' : s.id = stop' /\ s.station = NoStation]_vars

\* C3 witness: the rollup gave one Stop its Station and then failed on a
\* Stop with no crosswalk entry, which has no Station.
C3_Witness ==
    /\ pc = "failed"
    /\ error.type = "KeyError"
    /\ StationObjects # {}
    /\ \E s \in StopObjects :
          /\ s.id = error.at
          /\ s.station = NoStation
          /\ str(s.stop_id) \notin DOMAIN stop_lookup

\* C5 as stated: after a full reload every Stop's derived point fields
\* (4326 and 900913) equal the canonical point (4269) reprojected.
C5_StopsSynced ==
    pc = "done" =>
       \A s \in StopObjects :
          \A srid \in Range(PointSRIDs) \ {PointCanonicalSRID} :
             s.point[srid] = Transform(s.point[PointCanonicalSRID], srid)

\* All orders of a set of Stop ids.
Orders(ids) ==
    {o \in [1..Cardinality(ids) -> ids] : \A i, j \in DOMAIN o : i # j => o[i] # o[j]}

RECURSIVE RollupSeq(_, _, _)
\* The rounds of the rollup taken in the given order of Stops.
RollupSeq(before, order, lookup) ==
    IF order = <<>> THEN [after |-> before, err |-> ""]
    ELSE LET r == RollupStop(before, Head(order), lookup)
         IN  IF r.err # "" THEN r
             ELSE RollupSeq(r.after, Tail(order), lookup)

\* What a rollup's result says: the Station names, each Stop's Station (by
\* name) and line set, each Station's line set.
StationName(after, id) ==
    IF id = NoStation THEN ""
    ELSE (CHOOSE t \in after.Station : t.id = id).name
RollupView(after) ==
    [stations |-> {t.name : t \in after.Station},
     assignment |-> {<<s.id, StationName(after, s.station)>> : s \in after.Stop},
     stop_lines |-> {<<s.id, s.lines>> : s \in after.Stop},
     station_lines |-> {<<t.name, t.lines>> : t \in after.Station}]

\* C9: at any point of the rollup, all orders of the Stops still to process
\* on which the rollup succeeds end in the same result: the same Station
\* names, Stop-to-Station assignment, line set per Stop and per Station.
C9_OrderIndependence ==
    pc = "stations_loop" =>
       \A o1, o2 \in Orders(todo) :
          LET r1 == RollupSeq(Store, o1, stop_lookup)
              r2 == RollupSeq(Store, o2, stop_lookup)
          IN  (r1.err = "" /\ r2.err = "") =>
                 RollupView(r1.after) = RollupView(r2.after)

\* C9 witness: the rollup is about to process two Stops of one Station with
\* different lines, and succeeds on them.
C9_Witness ==
    /\ pc = "stations_loop"
    /\ Cardinality(todo) = 2
    /\ \E o \in Orders(todo) :
          LET r == RollupSeq(Store, o, stop_lookup)
          IN  /\ r.err = ""
              /\ Cardinality(r.after.Station) = 1
              /\ \E s1, s2 \in r.after.Stop :
                    s1.lines # s2.lines /\ s1.lines # {} /\ s2.lines # {}

\* C10: when a reload has failed, nothing was rolled back: no row from
\* before the reload is left (the deletes came first), the store is not what
\* it was before the reload, and what the steps before the failure built is
\* there; after a failure in the rollup that is the consolidated and synced
\* Lines and every imported Stop, one of them at least with no Station, which
\* a completed reload never leaves.
C10_NonTransactionalReload ==
    pc = "failed" =>
       /\ Ids(pre.Line) \cap Ids(LineObjects) = {}
       /\ Ids(pre.Stop) \cap Ids(StopObjects) = {}
       /\ Ids(pre.Station) \cap Ids(StationObjects) = {}
       /\ <<LineObjects, StopObjects, StationObjects>> #
             <<pre.Line, pre.Stop, pre.Station>>
       /\ Cardinality(LineObjects) + Cardinality(StopObjects) > 0
       /\ error.type \in {"KeyError", "DoesNotExist"} =>
             /\ Cardinality(StopObjects) = Len(files.stations_file)
             /\ \E s \in StopObjects : s.station = NoStation
             /\ dupe_list(LineObjects) = <<>>
             /\ \A l \in LineObjects :
                   \A srid \in Range(LineSRIDs) : l.linestring[srid] # NULL

\* C10 witness: a second reload, started on a loaded store, failed in the
\* rollup after giving one Stop its Station.
C10_Witness ==
    /\ pc = "failed"
    /\ error.type = "KeyError"
    /\ pre.Stop # {}
    /\ pre.Line # {}
    /\ StationObjects # {}
    /\ LineObjects # {}
    /\ \E s \in StopObjects : s.station = NoStation

\* C11: during the rollup of a reload (which starts with no Stations), between
\* two rounds of the loop and when the rollup has ended with an exception,
\* every Station of the store has at least one Stop assigned to it.
C11_EveryStationHasAStop ==
    pc \in {"stations_loop", "failed"} =>
       \A t \in StationObjects : StopsOf(t) # {}

\* What the two failure points before get_or_create do guarantee: the same,
\* as long as the exception that ended the rollup is not the one of
\* stop.save().
C11_UnlessSaveRejected ==
    (pc \in {"stations_loop", "failed"} /\ error.type # "DataError") =>
       \A t \in StationObjects : StopsOf(t) # {}

\* The rollup ended in stop.save(), after get_or_create made the Station of
\* the round: that Station has no Stop.
C11_OrphanStation ==
    /\ pc = "failed"
    /\ error.type = "DataError"
    /\ \E t \in StationObjects : StopsOf(t) = {}


(***************************************************************************)
(* Claims about the methods of an instance (SpecEntity).                   *)
(***************************************************************************)
\* What a sync call must leave: the canonical field as it was, and, when
\* the call returns, every other field of the role holding the canonical
\* geometry reprojected into that field's SRID.  The call returns unless the
\* canonical field holds no geometry.
SyncPost(before, after, srid_list, canonical_srid, ret) ==
    /\ after[canonical_srid] = before[canonical_srid]
    /\ (ret = "True") <=> (before[canonical_srid] # NULL)
    /\ ret = "True" =>
          \A srid \in Range(srid_list) \ {canonical_srid} :
             /\ after[srid] = Transform(before[canonical_srid], srid)
             /\ after[srid].srid = srid
    /\ ret # "True" => after = before

\* C6: a sync call (set_linestrings, set_point) with a canonical SRID of
\* the entity leaves every other SRID's full-resolution field equal to the
\* canonical geometry reprojected into that SRID, whatever the fields held
\* before, and leaves the canonical field and the simplified fields as they
\* were.
C6_SyncPostcondition ==
    [][/\ (call'.op = "set_linestrings" /\ call'.arg \in Range(LineSRIDs)) =>
             /\ SyncPost(obj.linestring, obj'.linestring, LineSRIDs,
                         call'.arg, call'.ret)
             /\ obj'.simple_linestring = obj.simple_linestring
       /\ (call'.op = "set_point" /\ call'.arg \in Range(PointSRIDs)) =>
             SyncPost(obj.point, obj'.point, PointSRIDs, call'.arg, call'.ret)
      ]_vars

\* C6 witness: set_linestrings has returned for a canonical SRID other than
\* the default, on a Line that has simplified fields.
C6_Witness ==
    /\ call.op = "set_linestrings"
    /\ call.ret = "True"
    /\ call.arg = 4326
    /\ Cardinality(obj.linestring[4326].parts) = 2
    /\ obj.linestring[2229] = ShapeY
    /\ \A srid \in Range(LineSRIDs) : obj.simple_linestring[srid] # NULL

\* C7: after set_simple_linestrings, for every SRID whose full-resolution
\* field is not empty the simplified field holds a MultiLineString in the
\* field's own SRID (the reduced geometry, in that SRID's coordinates), also
\* when the primitive handed back a single LineString.
C7_SimplifyKeepsMultiPart ==
    [][call'.op = "set_simple_linestrings" =>
          \A srid \in Range(LineSRIDs) :
             Truthy(obj.linestring[srid]) =>
                /\ obj'.simple_linestring[srid].type = "MultiLineString"
                /\ obj'.simple_linestring[srid].srid = srid
                /\ Transform(obj'.simple_linestring[srid], SimplifySRID).parts =
                      {SimplifyPart(p, call'.arg) :
                          p \in Transform(obj.linestring[srid], SimplifySRID).parts}
      ]_vars

\* C7 witness: the primitive handed back a LineString for one SRID and a
\* MultiLineString for another, and both simplified fields are multi-part.
C7_Witness ==
    /\ call.op = "set_simple_linestrings"
    /\ \E s1, s2 \in Range(LineSRIDs) :
          /\ call.simple[s1] = "LineString"
          /\ call.simple[s2] = "MultiLineString"
          /\ obj.simple_linestring[s1].type = "MultiLineString"
          /\ Cardinality(obj.simple_linestring[s1].parts) = 1
          /\ obj.simple_linestring[s2].type = "MultiLineString"

\* C8: set_simple_linestrings never raises; it leaves the simplified field
\* of every SRID whose full-resolution field is empty or absent empty, and
\* the simplified field of every other SRID populated, in the same call.
C8_SimplifyEmptyInput ==
    [][call'.op = "set_simple_linestrings" =>
          /\ call'.ret = "True"
          /\ \A srid \in Range(LineSRIDs) :
                IF Truthy(obj.linestring[srid])
                THEN Truthy(obj'.simple_linestring[srid])
                ELSE obj'.simple_linestring[srid] = NULL
      ]_vars

\* C8 witness: the call met an absent field first, then an empty one, then
\* a field with a geometry, on a Line whose simplified fields were all set.
C8_Witness ==
    /\ call.op = "set_simple_linestrings"
    /\ call.ret = "True"
    /\ obj.linestring[2229] = NULL
    /\ obj.linestring[4269] = MultiLineString(4269, {})
    /\ Truthy(obj.linestring[4326])
    /\ obj.simple_linestring[2229] = NULL
    /\ obj.simple_linestring[4269] = NULL
    /\ Truthy(obj.simple_linestring[4326])


====
